---- MODULE Spec2Model ----
(***************************************************************************)
(* jonkarrer/trado: the two feed-forward models                            *)
(*   daily_linear_classifier/src/model.rs  (23 -> ... -> 2, cross entropy) *)
(*   daily_linear_regression/src/model.rs  (47 -> ... -> 1, MSE)           *)
(*                                                                         *)
(* A tensor is modelled by its shape, the chain of module calls that       *)
(* produced it, the number of Bernoulli dropout masks multiplied into it,  *)
(* whether it is still attached to an upstream graph, and (for the tensors *)
(* whose numbers matter: the model output, the targets and what the loss   *)
(* computes from them) its integer data.  The numbers a linear layer       *)
(* computes depend on weights that are arbitrary, so the value of the      *)
(* output layer is an input of each call, drawn from Vals.                 *)
(***************************************************************************)
EXTENDS Integers, Sequences, FiniteSets, TLC

\* ------------------------------------------------------------------ bounds
MaxBatch == 2
MaxCalls == 1

\* The numbers a regression target or prediction takes in the model.
Vals == {0, 1}
ClassIds == {0, 1}

\* --------------------------------------------------------------- constants
Variants == {"classifier", "regressor"}

INPUT_SIZE(v) == IF v = "classifier" THEN 23 ELSE 47

HIDDEN_SIZES(v) ==
    IF v = "classifier" THEN <<64, 128, 256, 512, 1024, 2048>>
                        ELSE <<64, 128, 256>>

OUTPUT_SIZE(v) == IF v = "classifier" THEN 2 ELSE 1

\* ------------------------------------------------------------------ option
None == <<>>
Some(x) == <<x>>

\* ----------------------------------------------------------------- tensors
Untracked == <<>>

Panic ==
    [dims |-> <<>>, calls |-> <<>>, masks |-> 0, attached |-> FALSE,
     data |-> Untracked, err |-> TRUE]

\* A rank-2 input tensor of shape [b, w] handed over by the caller, still
\* attached to whatever graph produced it.
InputTensor(b, w) ==
    [dims |-> <<b, w>>, calls |-> <<>>, masks |-> 0, attached |-> TRUE,
     data |-> Untracked, err |-> FALSE]

\* A rank-1 target tensor holding the values of t.
TargetTensor(t) ==
    [dims |-> <<Len(t)>>, calls |-> <<>>, masks |-> 0, attached |-> FALSE,
     data |-> t, err |-> FALSE]

\* ---------------------------------------------------------- layer modules
\* LinearConfig::new(d_input, d_output).with_bias(true).init(device)
LinearConfig(d_in, d_out) == [d_input |-> d_in, d_output |-> d_out, bias |-> TRUE]

\* DropoutConfig::new(p).init(), p in percent
DropoutConfig(p) == [prob |-> p]

\* LayerNormConfig::new(d_model).init(device)
LayerNormConfig(d) == [d_model |-> d]

\* input.detach()
Detach(x) ==
    IF x.err THEN x
    ELSE [x EXCEPT !.attached = FALSE, !.calls = Append(@, "detach")]

\* layer.forward(x) of a Linear: x @ W + b.  The matmul requires the last
\* dimension of x to equal d_input and panics otherwise; y is the data of
\* the result.
LinearForward(layer, name, x, y) ==
    IF x.err THEN x
    ELSE IF x.dims[2] # layer.d_input THEN Panic
    ELSE [x EXCEPT !.dims = <<x.dims[1], layer.d_output>>,
                   !.calls = Append(@, name),
                   !.data = y]

\* self.activation.forward(x): Relu, elementwise, shape preserved
ReluForward(x) ==
    IF x.err THEN x ELSE [x EXCEPT !.calls = Append(@, "activation")]

\* self.dropout.forward(x): the identity unless the backend records
\* gradients (ad) and prob > 0; otherwise x times a Bernoulli mask.
DropoutForward(dropout, x, ad) ==
    IF x.err THEN x
    ELSE IF ~ad \/ dropout.prob = 0
         THEN [x EXCEPT !.calls = Append(@, "dropout")]
         ELSE [x EXCEPT !.calls = Append(@, "dropout"), !.masks = @ + 1]

\* x.unsqueeze::<2>() of a rank-1 tensor: new LEADING dimensions of size 1,
\* [n] becomes [1, n].
Unsqueeze(x) ==
    IF x.err THEN x
    ELSE [x EXCEPT !.dims = <<1, x.dims[1]>>, !.data = <<x.data>>]

\* The shape two rank-2 tensors broadcast to in an elementwise operation;
\* a dimension may differ only where one side has size 1.
BroadcastOk(a, b) ==
    \A k \in 1..2 : a.dims[k] = b.dims[k] \/ a.dims[k] = 1 \/ b.dims[k] = 1

BroadcastDim(da, db) == IF da = db THEN da ELSE IF da = 1 THEN db ELSE da

Ix(x, k, i) == IF x.dims[k] = 1 THEN 1 ELSE i

\* lhs.sub(rhs), elementwise with broadcasting; panics on other shapes.
Sub(a, b) ==
    IF a.err \/ b.err \/ ~BroadcastOk(a, b) THEN Panic
    ELSE LET r == BroadcastDim(a.dims[1], b.dims[1])
             c == BroadcastDim(a.dims[2], b.dims[2])
         IN  [dims |-> <<r, c>>,
              calls |-> Append(a.calls, "sub"),
              masks |-> a.masks,
              attached |-> a.attached,
              data |-> [i \in 1..r |-> [j \in 1..c |->
                          a.data[Ix(a, 1, i)][Ix(a, 2, j)]
                        - b.data[Ix(b, 1, i)][Ix(b, 2, j)]]],
              err |-> FALSE]

\* x.powf_scalar(2.0)
PowfScalar2(x) ==
    IF x.err THEN x
    ELSE [x EXCEPT !.calls = Append(@, "powf_scalar"),
                   !.data = [i \in 1..x.dims[1] |-> [j \in 1..x.dims[2] |->
                               x.data[i][j] * x.data[i][j]]]]

RECURSIVE SumSeq(_)
SumSeq(s) == IF s = <<>> THEN 0 ELSE Head(s) + SumSeq(Tail(s))

SumAll(x) == SumSeq([i \in 1..x.dims[1] |-> SumSeq(x.data[i])])

\* x.mean(): the sum of all elements over their number, kept as the
\* fraction num/den (den = 0 is the NaN of an empty tensor).
Mean(x) == [num |-> SumAll(x), den |-> x.dims[1] * x.dims[2]]

\* MseLoss::new().forward(logits, targets, Reduction::Mean)
MseLossForward(logits, targets) ==
    LET t == PowfScalar2(Sub(logits, targets))
    IN  IF t.err THEN None
        ELSE Some([kind |-> "mse", dims |-> t.dims,
                   num |-> Mean(t).num, den |-> Mean(t).den,
                   graph |-> logits.calls])

\* CrossEntropyLossConfig::new().with_logits(true).init(..).forward(o, t):
\* asserts one target per row of logits; the mean over the rows of the
\* negative log-softmax at the target class (kept symbolic: each row of
\* logits paired with its class id).
CrossEntropyLossForward(logits, targets) ==
    IF logits.err \/ targets.err \/ logits.dims[1] # targets.dims[1] THEN None
    ELSE Some([kind |-> "cross_entropy", dims |-> <<logits.dims[1]>>,
               terms |-> [i \in 1..logits.dims[1] |-> <<i, targets.data[i]>>],
               den |-> logits.dims[1],
               graph |-> logits.calls])

\* loss.backward(): a gradient for every parameter the loss was computed
\* through, i.e. every linear layer on the graph of the loss.
LinearNames == {"input_layer", "ln1", "ln2", "ln3", "output_layer"}

Backward(loss) ==
    {loss.graph[k] : k \in {i \in 1..Len(loss.graph) :
                              loss.graph[i] \in LinearNames \cup {"layer_norm"}}}

\* ------------------------------------------------- classifier: model.rs
\* Model::new with a stale feature count for the input layer
classifier_new_stale_input ==
    LET h1 == HIDDEN_SIZES("classifier")[1]
        h2 == HIDDEN_SIZES("classifier")[2]
        h3 == HIDDEN_SIZES("classifier")[3]
    IN  [variant |-> "classifier",
         input_layer |-> LinearConfig(10, h1),
         ln1 |-> LinearConfig(h1, h2),
         ln2 |-> LinearConfig(h2, h2),
         ln3 |-> LinearConfig(h2, h3),
         output_layer |-> LinearConfig(h3, OUTPUT_SIZE("classifier")),
         dropout |-> DropoutConfig(50),
         activation |-> "Relu"]

classifier_new ==
    LET h1 == HIDDEN_SIZES("classifier")[1]
        h2 == HIDDEN_SIZES("classifier")[2]
        h3 == HIDDEN_SIZES("classifier")[3]
    IN  [variant |-> "classifier",
         input_layer |-> LinearConfig(INPUT_SIZE("classifier"), h1),
         ln1 |-> LinearConfig(h1, h2),
         ln2 |-> LinearConfig(h2, h2),
         ln3 |-> LinearConfig(h2, h3),
         output_layer |-> LinearConfig(h3, OUTPUT_SIZE("classifier")),
         dropout |-> DropoutConfig(50),
         activation |-> "Relu"]

\* forward with the dropout calls left out
classifier_forward_no_dropout(self, input, ad, y) ==
    LET x0 == Detach(input)
        x1 == LinearForward(self.input_layer, "input_layer", x0, Untracked)
        x2 == ReluForward(x1)
        x4 == LinearForward(self.ln1, "ln1", x2, Untracked)
        x5 == ReluForward(x4)
        x7 == LinearForward(self.ln2, "ln2", x5, Untracked)
        x8 == ReluForward(x7)
        x10 == LinearForward(self.ln3, "ln3", x8, Untracked)
        x11 == ReluForward(x10)
    IN  LinearForward(self.output_layer, "output_layer", x11, y)

classifier_forward(self, input, ad, y) ==
    LET x0 == Detach(input)
        x1 == LinearForward(self.input_layer, "input_layer", x0, Untracked)
        x2 == ReluForward(x1)
        x3 == DropoutForward(self.dropout, x2, ad)
        x4 == LinearForward(self.ln1, "ln1", x3, Untracked)
        x5 == ReluForward(x4)
        x6 == DropoutForward(self.dropout, x5, ad)
        x7 == LinearForward(self.ln2, "ln2", x6, Untracked)
        x8 == ReluForward(x7)
        x9 == DropoutForward(self.dropout, x8, ad)
        x10 == LinearForward(self.ln3, "ln3", x9, Untracked)
        x11 == ReluForward(x10)
        x12 == DropoutForward(self.dropout, x11, ad)
    IN  LinearForward(self.output_layer, "output_layer", x12, y)

\* ------------------------------------------------- regression: model.rs
\* Model::new with ln2 sized from the wrong hidden width
regression_new_broken_chain ==
    LET h1 == HIDDEN_SIZES("regressor")[1]
        h2 == HIDDEN_SIZES("regressor")[2]
    IN  [variant |-> "regressor",
         input_layer |-> LinearConfig(INPUT_SIZE("regressor"), h1),
         ln1 |-> LinearConfig(h1, h1),
         ln2 |-> LinearConfig(h2, h2),
         ln3 |-> LinearConfig(h2, h2),
         output_layer |-> LinearConfig(h2, OUTPUT_SIZE("regressor")),
         dropout |-> DropoutConfig(33),
         activation |-> "Relu",
         layer_norm |-> LayerNormConfig(h1)]

regression_new ==
    LET h1 == HIDDEN_SIZES("regressor")[1]
        h2 == HIDDEN_SIZES("regressor")[2]
    IN  [variant |-> "regressor",
         input_layer |-> LinearConfig(INPUT_SIZE("regressor"), h1),
         ln1 |-> LinearConfig(h1, h1),
         ln2 |-> LinearConfig(h1, h2),
         ln3 |-> LinearConfig(h2, h2),
         output_layer |-> LinearConfig(h2, OUTPUT_SIZE("regressor")),
         dropout |-> DropoutConfig(33),
         activation |-> "Relu",
         layer_norm |-> LayerNormConfig(h1)]

\* forward returning the last hidden activation, the output layer forgotten
regression_forward_no_head(self, input, ad, y) ==
    LET x0 == Detach(input)
        x1 == LinearForward(self.input_layer, "input_layer", x0, Untracked)
        x2 == ReluForward(x1)
        x3 == DropoutForward(self.dropout, x2, ad)
        x4 == LinearForward(self.ln1, "ln1", x3, Untracked)
        x5 == ReluForward(x4)
        x6 == DropoutForward(self.dropout, x5, ad)
        x7 == LinearForward(self.ln2, "ln2", x6, Untracked)
        x8 == ReluForward(x7)
        x9 == DropoutForward(self.dropout, x8, ad)
        x10 == LinearForward(self.ln3, "ln3", x9, y)
        x11 == ReluForward(x10)
    IN  DropoutForward(self.dropout, x11, ad)

\* forward with dropout applied before the activation in the second block
regression_forward_swapped(self, input, ad, y) ==
    LET x0 == Detach(input)
        x1 == LinearForward(self.input_layer, "input_layer", x0, Untracked)
        x2 == ReluForward(x1)
        x3 == DropoutForward(self.dropout, x2, ad)
        x4 == LinearForward(self.ln1, "ln1", x3, Untracked)
        x5 == DropoutForward(self.dropout, x4, ad)
        x6 == ReluForward(x5)
        x7 == LinearForward(self.ln2, "ln2", x6, Untracked)
        x8 == ReluForward(x7)
        x9 == DropoutForward(self.dropout, x8, ad)
        x10 == LinearForward(self.ln3, "ln3", x9, Untracked)
        x11 == ReluForward(x10)
        x12 == DropoutForward(self.dropout, x11, ad)
    IN  LinearForward(self.output_layer, "output_layer", x12, y)

regression_forward(self, input, ad, y) ==
    LET x0 == Detach(input)
        x1 == LinearForward(self.input_layer, "input_layer", x0, Untracked)
        x2 == ReluForward(x1)
        x3 == DropoutForward(self.dropout, x2, ad)
        x4 == LinearForward(self.ln1, "ln1", x3, Untracked)
        x5 == ReluForward(x4)
        x6 == DropoutForward(self.dropout, x5, ad)
        x7 == LinearForward(self.ln2, "ln2", x6, Untracked)
        x8 == ReluForward(x7)
        x9 == DropoutForward(self.dropout, x8, ad)
        x10 == LinearForward(self.ln3, "ln3", x9, Untracked)
        x11 == ReluForward(x10)
        x12 == DropoutForward(self.dropout, x11, ad)
    IN  LinearForward(self.output_layer, "output_layer", x12, y)

\* ------------------------------------------------------ results of a call
\* What a call leaves behind: the StepOutput fields, or nothing at all when
\* the call unwound with a panic.
Failed ==
    [status |-> "panic", output |-> None, loss |-> None, targets |-> None,
     vec |-> None]

StepOutput(loss, output, targets) ==
    [status |-> "ok", output |-> Some(output), loss |-> loss,
     targets |-> Some(targets), vec |-> None]

classifier_forward_step(self, item, ad, y) ==
    LET targets == item.targets
        output == classifier_forward(self, item.inputs, ad, y)
        loss == CrossEntropyLossForward(output, targets)
    IN  IF output.err \/ loss = None THEN Failed
        ELSE StepOutput(loss, output, targets)

classifier_infer(self, item, ad, y) ==
    LET output == classifier_forward(self, item.inputs, ad, y)
    IN  IF output.err THEN Failed
        ELSE [status |-> "ok", output |-> Some(output), loss |-> None,
              targets |-> None, vec |-> None]

regression_forward_step(self, item, ad, y) ==
    LET targets == Unsqueeze(item.targets)
        output == regression_forward(self, item.inputs, ad, y)
        loss == MseLossForward(output, targets)
    IN  IF output.err \/ loss = None THEN Failed
        ELSE StepOutput(loss, output, targets)

\* output.to_data().to_vec(): the elements in row-major order
RECURSIVE Flatten(_)
Flatten(rows) == IF rows = <<>> THEN <<>> ELSE Head(rows) \o Flatten(Tail(rows))

regression_infer(self, item, ad, y) ==
    LET output == regression_forward(self, item.inputs, ad, y)
    IN  IF output.err THEN Failed
        ELSE [status |-> "ok", output |-> Some(output), loss |-> None,
              targets |-> None, vec |-> Some(Flatten(output.data))]

\* ------------------------------------------------------------------- state
VARIABLES
    self,           \* the Model built by Model::new
    ad,             \* whether the model's backend B records gradients
    params,         \* the value of every weight and bias, by owner
    last,           \* the last call: its operation, input and result
    trainCalls,     \* TrainStep::step calls made
    trainPanics,    \* ... of which unwound with a panic
    backwardCalls   \* loss.backward() calls made

vars == <<self, ad, params, last, trainCalls, trainPanics, backwardCalls>>

ParamOwners(m) ==
    IF m.variant = "classifier" THEN LinearNames
                                ELSE LinearNames \cup {"layer_norm"}

NoCall ==
    [op |-> "none", input |-> None, status |-> "none", output |-> None,
     loss |-> None, targets |-> None, grads |-> None, vec |-> None]

Call(op, input, r, grads) ==
    [op |-> op, input |-> Some(input), status |-> r.status,
     output |-> r.output, loss |-> r.loss, targets |-> r.targets,
     grads |-> grads, vec |-> r.vec]

\* ------------------------------------------------------------------ inputs
\* Feature widths a caller may hand in: the configured one and wrong ones.
InputWidths(v) == {INPUT_SIZE(v), 10}

BatchSizes == 0..MaxBatch

TargetVals(v) == IF v = "classifier" THEN ClassIds ELSE Vals

\* The batcher hands over one target per input row.
Batch(b, w, t) ==
    [inputs |-> InputTensor(b, w), targets |-> TargetTensor(t)]

InferBatch(b, w) == [inputs |-> InputTensor(b, w)]

\* The numbers the output layer may compute for b rows (tracked for the
\* regressor, whose loss is computed from them).
Outputs(v, b) ==
    IF v = "classifier" THEN {Untracked}
    ELSE [1..b -> [1..OUTPUT_SIZE(v) -> Vals]]

Init ==
    /\ self \in {classifier_new, regression_new}
    /\ ad \in BOOLEAN
    /\ params = [n \in ParamOwners(self) |-> 0]
    /\ last = NoCall
    /\ trainCalls = 0
    /\ trainPanics = 0
    /\ backwardCalls = 0

\* -------- classifier: the operations of Model<B>
\* Model::forward called directly
classifier_Forward ==
    /\ self.variant = "classifier"
    /\ \E b \in BatchSizes, w \in InputWidths("classifier") :
         \E y \in Outputs("classifier", b) :
         \E output \in {classifier_forward(self, InputTensor(b, w), ad, y)} :
            LET r == IF output.err THEN Failed
                     ELSE [status |-> "ok", output |-> Some(output),
                           loss |-> None, targets |-> None, vec |-> None]
            IN  last' = Call("forward", InputTensor(b, w), r, None)
    /\ UNCHANGED <<self, ad, params, trainCalls, trainPanics, backwardCalls>>

\* Model::forward_step called directly (evaluate)
classifier_ForwardStep ==
    /\ self.variant = "classifier"
    /\ \E b \in BatchSizes, w \in InputWidths("classifier") :
         \E t \in [1..b -> TargetVals("classifier")], y \in Outputs("classifier", b) :
         \E r \in {classifier_forward_step(self, Batch(b, w, t), ad, y)} :
            last' = Call("forward_step", InputTensor(b, w), r, None)
    /\ UNCHANGED <<self, ad, params, trainCalls, trainPanics, backwardCalls>>

\* Model::infer
classifier_Infer ==
    /\ self.variant = "classifier"
    /\ \E b \in BatchSizes, w \in InputWidths("classifier") :
         \E y \in Outputs("classifier", b) :
         \E r \in {classifier_infer(self, InferBatch(b, w), ad, y)} :
            last' = Call("infer", InputTensor(b, w), r, None)
    /\ UNCHANGED <<self, ad, params, trainCalls, trainPanics, backwardCalls>>

\* <Model<B> as TrainStep>::step, B: AutodiffBackend:
\* TrainOutput::new(self, item.loss.backward(), item)
classifier_TrainStep ==
    /\ self.variant = "classifier"
    /\ ad
    /\ trainCalls < MaxCalls
    /\ \E b \in BatchSizes, w \in InputWidths("classifier") :
         \E t \in [1..b -> TargetVals("classifier")], y \in Outputs("classifier", b) :
         \E r \in {classifier_forward_step(self, Batch(b, w, t), ad, y)} :
            LET ok == r.status = "ok"
            IN  /\ last' = Call("TrainStep", InputTensor(b, w), r,
                                IF ok THEN Some(Backward(r.loss[1])) ELSE None)
                /\ trainPanics' = IF ok THEN trainPanics ELSE trainPanics + 1
                /\ backwardCalls' = IF ok THEN backwardCalls + 1
                                          ELSE backwardCalls
    /\ trainCalls' = trainCalls + 1
    /\ UNCHANGED <<self, ad, params>>

\* <Model<B> as ValidStep>::step, B: Backend: self.forward_step(item)
classifier_ValidStep ==
    /\ self.variant = "classifier"
    /\ \E b \in BatchSizes, w \in InputWidths("classifier") :
         \E t \in [1..b -> TargetVals("classifier")], y \in Outputs("classifier", b) :
         \E r \in {classifier_forward_step(self, Batch(b, w, t), ad, y)} :
            last' = Call("ValidStep", InputTensor(b, w), r, None)
    /\ UNCHANGED <<self, ad, params, trainCalls, trainPanics, backwardCalls>>

\* -------- regression: the operations of Model<B>
\* Model::forward called directly
regression_Forward ==
    /\ self.variant = "regressor"
    /\ \E b \in BatchSizes, w \in InputWidths("regressor") :
         \E y \in Outputs("regressor", b) :
         \E output \in {regression_forward(self, InputTensor(b, w), ad, y)} :
            LET r == IF output.err THEN Failed
                     ELSE [status |-> "ok", output |-> Some(output),
                           loss |-> None, targets |-> None, vec |-> None]
            IN  last' = Call("forward", InputTensor(b, w), r, None)
    /\ UNCHANGED <<self, ad, params, trainCalls, trainPanics, backwardCalls>>

\* Model::forward_step called directly (evaluate)
regression_ForwardStep ==
    /\ self.variant = "regressor"
    /\ \E b \in BatchSizes, w \in InputWidths("regressor") :
         \E t \in [1..b -> TargetVals("regressor")], y \in Outputs("regressor", b) :
         \E r \in {regression_forward_step(self, Batch(b, w, t), ad, y)} :
            last' = Call("forward_step", InputTensor(b, w), r, None)
    /\ UNCHANGED <<self, ad, params, trainCalls, trainPanics, backwardCalls>>

\* Model::infer
regression_Infer ==
    /\ self.variant = "regressor"
    /\ \E b \in BatchSizes, w \in InputWidths("regressor") :
         \E y \in Outputs("regressor", b) :
         \E r \in {regression_infer(self, InferBatch(b, w), ad, y)} :
            last' = Call("infer", InputTensor(b, w), r, None)
    /\ UNCHANGED <<self, ad, params, trainCalls, trainPanics, backwardCalls>>

\* TrainStep::step applying the gradients to the parameters itself
regression_TrainStep_updates ==
    /\ self.variant = "regressor"
    /\ ad
    /\ trainCalls < MaxCalls
    /\ \E b \in BatchSizes, w \in InputWidths("regressor") :
         \E t \in [1..b -> TargetVals("regressor")], y \in Outputs("regressor", b) :
         \E r \in {regression_forward_step(self, Batch(b, w, t), ad, y)} :
            LET ok == r.status = "ok"
            IN  /\ last' = Call("TrainStep", InputTensor(b, w), r,
                                IF ok THEN Some(Backward(r.loss[1])) ELSE None)
                /\ trainPanics' = IF ok THEN trainPanics ELSE trainPanics + 1
                /\ backwardCalls' = IF ok THEN backwardCalls + 1
                                          ELSE backwardCalls
                /\ params' = IF ok
                              THEN [n \in DOMAIN params |->
                                      IF n \in Backward(r.loss[1])
                                      THEN params[n] + 1 ELSE params[n]]
                              ELSE params
    /\ trainCalls' = trainCalls + 1
    /\ UNCHANGED <<self, ad>>

\* <Model<B> as TrainStep>::step, B: AutodiffBackend:
\* TrainOutput::new(self, item.loss.backward(), item)
regression_TrainStep ==
    /\ self.variant = "regressor"
    /\ ad
    /\ trainCalls < MaxCalls
    /\ \E b \in BatchSizes, w \in InputWidths("regressor") :
         \E t \in [1..b -> TargetVals("regressor")], y \in Outputs("regressor", b) :
         \E r \in {regression_forward_step(self, Batch(b, w, t), ad, y)} :
            LET ok == r.status = "ok"
            IN  /\ last' = Call("TrainStep", InputTensor(b, w), r,
                                IF ok THEN Some(Backward(r.loss[1])) ELSE None)
                /\ trainPanics' = IF ok THEN trainPanics ELSE trainPanics + 1
                /\ backwardCalls' = IF ok THEN backwardCalls + 1
                                          ELSE backwardCalls
    /\ trainCalls' = trainCalls + 1
    /\ UNCHANGED <<self, ad, params>>

\* ValidStep::step written like TrainStep::step, calling loss.backward()
regression_ValidStep_backward ==
    /\ self.variant = "regressor"
    /\ backwardCalls <= MaxCalls
    /\ \E b \in BatchSizes, w \in InputWidths("regressor") :
         \E t \in [1..b -> TargetVals("regressor")], y \in Outputs("regressor", b) :
         \E r \in {regression_forward_step(self, Batch(b, w, t), ad, y)} :
            LET ok == r.status = "ok"
            IN  /\ last' = Call("ValidStep", InputTensor(b, w), r,
                                IF ok THEN Some(Backward(r.loss[1])) ELSE None)
                /\ backwardCalls' = IF ok THEN backwardCalls + 1
                                          ELSE backwardCalls
    /\ UNCHANGED <<self, ad, params, trainCalls, trainPanics>>

\* <Model<B> as ValidStep>::step, B: Backend: self.forward_step(item)
regression_ValidStep ==
    /\ self.variant = "regressor"
    /\ \E b \in BatchSizes, w \in InputWidths("regressor") :
         \E t \in [1..b -> TargetVals("regressor")], y \in Outputs("regressor", b) :
         \E r \in {regression_forward_step(self, Batch(b, w, t), ad, y)} :
            last' = Call("ValidStep", InputTensor(b, w), r, None)
    /\ UNCHANGED <<self, ad, params, trainCalls, trainPanics, backwardCalls>>

Next ==
    \/ classifier_Forward
    \/ classifier_ForwardStep
    \/ classifier_Infer
    \/ classifier_TrainStep
    \/ classifier_ValidStep
    \/ regression_Forward
    \/ regression_ForwardStep
    \/ regression_Infer
    \/ regression_TrainStep
    \/ regression_ValidStep

Spec == Init /\ [][Next]_vars

\* ================================================================= claims
Returned == last.status = "ok"
Made(ops) == last.op \in ops
EvaluateOps == {"forward_step", "TrainStep", "ValidStep"}
AllOps == {"forward", "forward_step", "infer", "TrainStep", "ValidStep"}
BatchSize == last.input[1].dims[1]
StatedInputSize == IF self.variant = "classifier" THEN 23 ELSE 47
StatedOutputSize == IF self.variant = "classifier" THEN 2 ELSE 1
OutputCalls == last.output[1].calls
Count(seq, c) == Cardinality({k \in 1..Len(seq) : seq[k] = c})

\* C1: in both variants a call whose input has shape [B, input_size]
\* (23 for the classifier, 47 for the regressor) returns an output of shape
\* [B, output_size] (2, resp. 1) for every B >= 0; B = 0 does not fail and
\* yields an empty [0, output_size] output.
C1_ForwardShape ==
    (Made(AllOps) /\ last.input[1].dims[2] = StatedInputSize)
        => /\ Returned
           /\ last.output # None
           /\ last.output[1].dims = <<BatchSize, StatedOutputSize>>

C1_Witness ==
    /\ Made({"forward"})
    /\ Returned
    /\ BatchSize = 0
    /\ last.output[1].dims = <<0, StatedOutputSize>>

\* C2: in the regression variant, for a batch of B >= 1 examples the loss of
\* evaluate is (1/B) * sum_i (output[i] - targets[i])^2, each prediction
\* paired with its own target only; when output[i] = targets[i] for every i
\* the loss is exactly 0.
C2_MseIsPerExampleMean ==
    (self.variant = "regressor" /\ Made(EvaluateOps) /\ Returned /\ BatchSize >= 1)
        => LET out == Flatten(last.output[1].data)
               tgt == Flatten(last.targets[1].data)
               sq == [i \in 1..BatchSize |-> (out[i] - tgt[i]) * (out[i] - tgt[i])]
               loss == last.loss[1]
           IN  /\ loss.den # 0
               /\ loss.num * BatchSize = loss.den * SumSeq(sq)
               /\ (out = tgt => loss.num = 0)

\* C3: in the regression variant's evaluate the 1-D targets of shape [B] are
\* reshaped to [B, 1], the shape of the output, before the loss is computed,
\* for every B; the targets echoed in the StepOutput have shape [B, 1].
C3_TargetsReshapedToColumn ==
    (self.variant = "regressor" /\ Made(EvaluateOps) /\ Returned)
        => /\ last.targets[1].dims = <<BatchSize, 1>>
           /\ last.targets[1].dims = last.output[1].dims

\* C4: gradients are produced by TrainStep and by nothing else: over any
\* sequence of calls one gradient set (one loss.backward) has been computed
\* per TrainStep call that returned, a returned TrainStep carries a gradient
\* set, and no forward, evaluate, ValidStep or Infer call carries one.
C4_GradientsOnlyInTrainStep ==
    /\ backwardCalls = trainCalls - trainPanics
    /\ Made(AllOps \ {"TrainStep"}) => last.grads = None
    /\ Made({"TrainStep"}) => (last.grads # None <=> Returned)

C4_Witness ==
    /\ Made({"ValidStep"})
    /\ Returned
    /\ trainCalls = 1
    /\ backwardCalls = 1
    /\ last.grads = None

\* C5 as stated: dropout is inactive (no activation is zeroed) in every
\* ValidStep and Infer call and active in every TrainStep call, whichever
\* model instance the call is made on (stated for batches that hold an
\* activation to zero).
C5_DropoutInactiveOutsideTraining ==
    /\ (Made({"ValidStep", "infer"}) /\ Returned /\ BatchSize >= 1)
          => last.output[1].masks = 0
    /\ (Made({"TrainStep"}) /\ Returned) => last.output[1].masks > 0

\* C5 amended: dropout is inactive in every ValidStep and Infer call made on
\* a model whose backend does not record gradients, and active in every
\* TrainStep call; a ValidStep or Infer call made on a model of an autodiff
\* backend runs with dropout active.
C5_DropoutFollowsBackend ==
    /\ (Made({"ValidStep", "infer"}) /\ Returned /\ ~ad)
          => last.output[1].masks = 0
    /\ (Made({"ValidStep", "infer"}) /\ Returned /\ ad)
          => last.output[1].masks > 0
    /\ (Made({"TrainStep"}) /\ Returned) => last.output[1].masks > 0

C5_Witness ==
    /\ Made({"ValidStep"})
    /\ Returned
    /\ ~ad
    /\ Count(OutputCalls, "dropout") > 0
    /\ last.output[1].masks = 0

\* C6: a call whose input's feature width differs from the configured
\* input_size (23 classifier, 47 regressor) fails with a shape mismatch and
\* produces no output, loss or gradient set; the input is never made to fit.
C6_ShapeMismatchFails ==
    (Made(AllOps) /\ last.input[1].dims[2] # StatedInputSize)
        => /\ last.status = "panic"
           /\ last.output = None
           /\ last.loss = None
           /\ last.targets = None
           /\ last.grads = None
           /\ last.vec = None

C6_Witness ==
    /\ Made({"forward_step"})
    /\ last.input[1].dims[2] = 10
    /\ last.status = "panic"
    /\ last.output = None

\* C7: no operation changes the model's parameters: every step of every
\* sequence of calls leaves each weight and bias as it was.
C7_ParamsUnchanged == [][params' = params]_vars

C7_Witness ==
    /\ Made({"TrainStep"})
    /\ Returned
    /\ last.grads # None
    /\ \A n \in DOMAIN params : params[n] = 0

\* C8: the regression forward applies the normalization layer to the output
\* of the first hidden layer's linear transform, before that layer's
\* activation and dropout, and nowhere else; the classifier's forward applies
\* no normalization.
C8_NormAfterFirstHidden ==
    (Made(AllOps) /\ Returned)
        => IF self.variant = "regressor"
           THEN /\ Count(OutputCalls, "layer_norm") = 1
                /\ OutputCalls[2] = "input_layer"
                /\ OutputCalls[3] = "layer_norm"
                /\ OutputCalls[4] = "activation"
           ELSE Count(OutputCalls, "layer_norm") = 0

\* C9: in both variants forward first detaches the input, then for each
\* hidden layer in declared order applies linear, activation, dropout, and
\* last the output layer alone; each owned linear layer is applied once.
HiddenLayers == <<"input_layer", "ln1", "ln2", "ln3">>

C9_ForwardOrder ==
    (Made(AllOps) /\ Returned)
        => /\ Len(OutputCalls) = 3 * Len(HiddenLayers) + 2
           /\ OutputCalls[1] = "detach"
           /\ \A i \in 1..Len(HiddenLayers) :
                 /\ OutputCalls[3 * i - 1] = HiddenLayers[i]
                 /\ OutputCalls[3 * i] = "activation"
                 /\ OutputCalls[3 * i + 1] = "dropout"
           /\ OutputCalls[Len(OutputCalls)] = "output_layer"
           /\ \A n \in LinearNames : Count(OutputCalls, n) = 1
           /\ ~last.output[1].attached

C9_Witness ==
    /\ Made({"infer"})
    /\ Returned
    /\ BatchSize > 0
    /\ OutputCalls[Len(OutputCalls)] = "output_layer"

\* C10: the widths of every built model chain: the first layer takes
\* input_size, each layer's output width is the input width of the layer
\* forward applies next, and the last layer yields output_size (2 for the
\* classifier, 1 for the regressor).
AppliedLinears == SelectSeq(OutputCalls, LAMBDA c : c \in LinearNames)

Chains(order) ==
    /\ self[order[1]].d_input = StatedInputSize
    /\ \A i \in 1..(Len(order) - 1) :
          self[order[i]].d_output = self[order[i + 1]].d_input
    /\ self[order[Len(order)]].d_output = StatedOutputSize

C10_WidthsChain ==
    /\ Chains(HiddenLayers \o <<"output_layer">>)
    /\ (Made(AllOps) /\ Returned)
          => /\ AppliedLinears = HiddenLayers \o <<"output_layer">>
             /\ Chains(AppliedLinears)

C10_Witness ==
    /\ Made({"forward"})
    /\ Returned
    /\ BatchSize > 0
    /\ Len(AppliedLinears) = 5

====
